---- MODULE Spec2Model ----
(***************************************************************************)
(* A model of the rusty_markov library crate (src/src/memory.rs and        *)
(* src/src/words.rs): the Memory chain, its learn / speak operations, the  *)
(* weighted draw NextPartList::get and the save / load codec.              *)
(*                                                                         *)
(* A string is a sequence of one-character strings.  A SentencePart is a   *)
(* record [tag, text]; a SentencePartPair is a record [prev, prev_prev]; a *)
(* NextPartList is a function from SentenceParts to counts; Memory.words   *)
(* is a function from SentencePartPairs to NextPartLists.                  *)
(***************************************************************************)
EXTENDS Integers, Sequences, FiniteSets, TLC

VARIABLES
    words,          \* Memory.words : HashMap<SentencePartPair, NextPartList>
    before,         \* history: Memory.words as it was when the last learn was called
    lastLine,       \* history: the `line` argument of the last learn call
    nLearn,         \* number of learn calls made so far
    same,           \* history: the last learn was given the same line as the one before it
    pc,             \* position of the speak call: "idle", "loop" or "done"
    starting_word,  \* speak: its argument
    previous_pair,  \* speak: local previous_pair
    len,            \* speak: local len
    result,         \* speak: local result (String)
    ret,            \* speak: the returned Option<String>
    exit,           \* speak: which break / loop condition ended the loop
    file,           \* the file written by save (NoFile when there is none)
    saved,          \* history: Memory.words as it was when save was called
    loaded,         \* the Memory returned by the last load
    list,           \* the NextPartList get is called on
    iter,           \* the enumeration order of list.parts in this process
    drawn,          \* number of indices of [0, total) drawn so far
    hits,           \* per SentencePart: how many of those draws returned it
    nones           \* how many of those draws returned None

vars == <<words, before, lastLine, nLearn, same, pc, starting_word, previous_pair, len,
          result, ret, exit, file, saved, loaded, list, iter, drawn, hits, nones>>

learnVars == <<words, before, lastLine, nLearn, same>>
speakVars == <<pc, starting_word, previous_pair, len, result, ret, exit>>
persistVars == <<file, saved, loaded>>
getVars == <<list, iter, drawn, hits, nones>>

----------------------------------------------------------------------------
(* Bounds of the model.                                                    *)

MaxLineLen == 5
MaxLearn == 3
MaxCaseLineLen == 3
MaxCaseLearn == 2
MaxSpeakLearn == 2
MaxSpeakCaseLearn == 1
MaxStartLen == 3
MaxPersistLearn == 3
MaxCount == 9

----------------------------------------------------------------------------
(* Strings.                                                                *)

Letters == {"a"}
CaseLetters == {"a", "A"}
Whitespace == {" "}

Strings(chars, n) == UNION {[1..k -> chars] : k \in 0..n}

is_ascii_whitespace(c) == c \in Whitespace

\* char::to_ascii_lowercase
char_to_ascii_lowercase(c) == IF c = "A" THEN "a" ELSE c

\* str::to_ascii_lowercase
to_ascii_lowercase(s) == [i \in 1..Len(s) |-> char_to_ascii_lowercase(s[i])]

RECURSIVE split_from(_, _, _, _)
split_from(s, i, cur, acc) ==
    IF i > Len(s)
    THEN IF cur = <<>> THEN acc ELSE Append(acc, cur)
    ELSE IF is_ascii_whitespace(s[i])
         THEN split_from(s, i + 1, <<>>, IF cur = <<>> THEN acc ELSE Append(acc, cur))
         ELSE split_from(s, i + 1, Append(cur, s[i]), acc)

\* str::split_ascii_whitespace, collected: the maximal runs of non-whitespace
split_ascii_whitespace(s) == split_from(s, 1, <<>>, <<>>)

\* str::trim: without its leading and trailing whitespace
trim(s) ==
    LET keep == {i \in 1..Len(s) : ~is_ascii_whitespace(s[i])}
    IN  IF keep = {} THEN <<>>
        ELSE LET lo == CHOOSE i \in keep : \A j \in keep : i <= j
                 hi == CHOOSE i \in keep : \A j \in keep : j <= i
             IN  [i \in 1..(hi - lo + 1) |-> s[lo + i - 1]]

\* str::trim().is_empty()
trim_is_empty(s) == trim(s) = <<>>

----------------------------------------------------------------------------
(* words.rs                                                                *)

StartOfLine == [tag |-> "StartOfLine", text |-> <<>>]
EndOfLine == [tag |-> "EndOfLine", text |-> <<>>]
Word(s) == [tag |-> "Word", text |-> s]

is_word(part) == part.tag = "Word"

\* SentencePartPair::default
default_pair == [prev |-> StartOfLine, prev_prev |-> StartOfLine]

\* a constructor that strips the whitespace around the word first
with_previous_word_trimmed(s) == [prev |-> Word(trim(s)), prev_prev |-> StartOfLine]

with_previous_word(s) == [prev |-> Word(s), prev_prev |-> StartOfLine]

\* a check that accepts every pair
is_valid_sentence_always(pair) == TRUE

is_valid_sentence(pair) == is_word(pair.prev)

\* a shift that overwrites prev without moving it to prev_prev first
shift_no_swap(pair, new_prev) == [pair EXCEPT !.prev = Word(new_prev)]

shift(pair, new_prev) ==
    LET swapped == [prev |-> pair.prev_prev, prev_prev |-> pair.prev]
    IN  [swapped EXCEPT !.prev = Word(new_prev)]

\* NextPartList::default
default_list == [p \in {} |-> 0]

\* a count that inserts 1 instead of incrementing
count_part_insert(l, part) == [p \in DOMAIN l \cup {part} |-> IF p = part THEN 1 ELSE l[p]]

count_part(l, part) ==
    [p \in DOMAIN l \cup {part} |->
        IF p = part
        THEN (IF part \in DOMAIN l THEN l[part] ELSE 0) + 1
        ELSE l[p]]

----------------------------------------------------------------------------
(* memory.rs: learn                                                        *)

\* Memory::default
default_memory == [k \in {} |-> default_list]

\* self.words.entry(key).or_insert_with(Default::default).count_part(part)
entry_count_part(m, key, part) ==
    [k \in DOMAIN m \cup {key} |->
        IF k = key
        THEN count_part(IF key \in DOMAIN m THEN m[key] ELSE default_list, part)
        ELSE m[k]]

RECURSIVE learn_loop(_, _, _, _)
learn_loop(m, pair, parts, i) ==
    IF i > Len(parts)
    THEN IF is_valid_sentence(pair)
         THEN entry_count_part(m, pair, EndOfLine)
         ELSE m
    ELSE IF trim_is_empty(parts[i])
         THEN learn_loop(m, pair, parts, i + 1)
         ELSE learn_loop(
                 IF is_valid_sentence(pair)
                 THEN entry_count_part(m, pair, Word(parts[i]))
                 ELSE m,
                 shift(pair, parts[i]), parts, i + 1)

learn(m, line) == learn_loop(m, default_pair, split_ascii_whitespace(line), 1)

NoLine == <<"-">>

\* One call of Memory::learn.  `history` says whether the call is recorded in
\* the history variables before / lastLine / same.
Learn(line, maxLearn, history) ==
    /\ pc = "idle"
    /\ nLearn < maxLearn
    /\ words' = learn(words, line)
    /\ nLearn' = nLearn + 1
    /\ IF history
       THEN /\ before' = words
            /\ lastLine' = line
            /\ same' = (nLearn > 0 /\ line = lastLine)
       ELSE UNCHANGED <<before, lastLine, same>>
    /\ UNCHANGED <<speakVars, persistVars, getVars>>

----------------------------------------------------------------------------
(* words.rs: NextPartList::get                                             *)

\* Option::None of get
NoPart == [tag |-> "None", text |-> <<>>]

\* the orders in which a HashMap with key set S can enumerate its entries
Orders(S) == {o \in [1..Cardinality(S) -> S] : \A x \in S : \E i \in DOMAIN o : o[i] = x}

RECURSIVE sum_values(_, _)
sum_values(l, S) ==
    IF S = {} THEN 0
    ELSE LET p == CHOOSE x \in S : TRUE IN l[p] + sum_values(l, S \ {p})

\* self.parts.values().sum()
total(l) == sum_values(l, DOMAIN l)

\* a scan that also stops at an entry whose count equals the remaining index
RECURSIVE get_scan_off_by_one(_, _, _, _)
get_scan_off_by_one(l, order, i, index) ==
    IF i > Len(order) THEN NoPart
    ELSE IF l[order[i]] >= index THEN order[i]
    ELSE get_scan_off_by_one(l, order, i + 1, index - l[order[i]])

\* the for loop of get over the entries in enumeration order `order`
RECURSIVE get_scan(_, _, _, _)
get_scan(l, order, i, index) ==
    IF i > Len(order) THEN NoPart
    ELSE IF l[order[i]] > index THEN order[i]
    ELSE get_scan(l, order, i + 1, index - l[order[i]])

\* get, given the enumeration order of the map and the index the rng draws
get(l, order, index) ==
    IF DOMAIN l = {} THEN NoPart ELSE get_scan(l, order, 1, index)

\* every value get can return: any enumeration order, any index in [0, total)
get_outcomes(l) ==
    IF DOMAIN l = {}
    THEN {get(l, <<>>, 0)}
    ELSE {get(l, order, index) : order \in Orders(DOMAIN l), index \in 0..(total(l) - 1)}

----------------------------------------------------------------------------
(* memory.rs: speak                                                        *)

WordsPerStep == 3
ChancePerStep == 10
PercentRange == 100

\* Option::None of speak
NoString == <<"-">>

\* an append that leaves out the separating space
speak_append_no_space(res, word) == res \o word

\* result += " " (unless empty); result += word
speak_append(res, word) == (IF res # <<>> THEN res \o <<" ">> ELSE res) \o word

\* a return that formats the sentence even when nothing was produced
speak_return_always_some(start, res) == to_ascii_lowercase(start) \o <<" ">> \o res

\* the value speak returns after the loop
speak_return(start, res) ==
    IF res = <<>> THEN NoString ELSE to_ascii_lowercase(start) \o <<" ">> \o res

\* a chance that is not scaled to percent
chance_to_break_no_scale(n) == n \div WordsPerStep

chance_to_break(n) == (n \div WordsPerStep) * ChancePerStep

SpeakStart(s) ==
    /\ pc = "idle"
    /\ pc' = "loop"
    /\ starting_word' = s
    /\ len' = 0
    /\ result' = <<>>
    /\ previous_pair' = with_previous_word(to_ascii_lowercase(s))
    /\ ret' = NoString
    /\ exit' = "none"
    /\ UNCHANGED <<learnVars, persistVars, getVars>>

\* the loop is left with `res` as the sentence built so far
SpeakBreak(why, res, pair, n) ==
    /\ pc' = "done"
    /\ exit' = why
    /\ result' = res
    /\ previous_pair' = pair
    /\ len' = n
    /\ ret' = speak_return(starting_word, res)

\* one evaluation of the while condition and, if it holds, of the loop body
SpeakStep ==
    /\ pc = "loop"
    /\ IF previous_pair \notin DOMAIN words
       THEN SpeakBreak("unknown", result, previous_pair, len)
       ELSE \E next_word \in get_outcomes(words[previous_pair]) :
              IF next_word = NoPart
              THEN SpeakBreak("none", result, previous_pair, len)
              ELSE IF is_word(next_word)
              THEN LET res == speak_append(result, next_word.text)
                       pair == shift(previous_pair, next_word.text)
                       n == len + 1
                   IN  \E r \in 0..(PercentRange - 1) :
                         IF r < chance_to_break(n)
                         THEN SpeakBreak("chance", res, pair, n)
                         ELSE /\ pc' = "loop"
                              /\ result' = res
                              /\ previous_pair' = pair
                              /\ len' = n
                              /\ UNCHANGED <<ret, exit>>
              ELSE SpeakBreak("not a word", result, previous_pair, len)
    /\ UNCHANGED <<starting_word, learnVars, persistVars, getVars>>

\* the caller takes the returned value; the locals of the call are gone
SpeakReturn ==
    /\ pc = "done"
    /\ pc' = "idle"
    /\ starting_word' = NoString
    /\ previous_pair' = default_pair
    /\ len' = 0
    /\ result' = <<>>
    /\ ret' = NoString
    /\ exit' = "none"
    /\ UNCHANGED <<learnVars, persistVars, getVars>>

----------------------------------------------------------------------------
----------------------------------------------------------------------------
(* memory.rs: save and load.  The derived Serialize / Deserialize of       *)
(* Memory, SentencePartPair, SentencePart and NextPartList, written by     *)
(* bincode as a sequence of integer fields: a u64 length before a map or a *)
(* string, a u32 variant index before an enum, the bytes of a string.      *)

\* the file does not exist
NoFile == [entries |-> <<>>, exists |-> FALSE]
\* no load has returned yet
NoMemory == [status |-> "none", memory |-> [k \in {} |-> 0]]
\* Ok(memory)
Ok(m) == [status |-> "Ok", memory |-> m]
\* Err(Error::CouldNotOpenFile)
CouldNotOpenFile == [status |-> "CouldNotOpenFile", memory |-> [k \in {} |-> 0]]

byte_of(c) == IF c = "a" THEN 97 ELSE IF c = "A" THEN 65 ELSE 32
char_of(b) == IF b = 97 THEN "a" ELSE IF b = 65 THEN "A" ELSE " "

ser_string(s) == <<Len(s)>> \o [i \in 1..Len(s) |-> byte_of(s[i])]

\* #[derive(Serialize)] enum SentencePart { StartOfLine, EndOfLine, Word(String) }
ser_part(part) ==
    IF part = StartOfLine THEN <<0>>
    ELSE IF part = EndOfLine THEN <<1>>
    ELSE <<2>> \o ser_string(part.text)

\* a pair written with its two fields in the other order
ser_pair_swapped(pair) == ser_part(pair.prev_prev) \o ser_part(pair.prev)

\* #[derive(Serialize)] struct SentencePartPair { prev, prev_prev }
ser_pair(pair) == ser_part(pair.prev) \o ser_part(pair.prev_prev)

\* #[derive(Serialize)] struct NextPartList { parts }, entries in `order`
RECURSIVE ser_list_entries(_, _, _)
ser_list_entries(l, order, n) ==
    IF n = 0 THEN <<>>
    ELSE ser_list_entries(l, order, n - 1) \o ser_part(order[n]) \o <<l[order[n]]>>

ser_list(l, order) == <<Len(order)>> \o ser_list_entries(l, order, Len(order))

\* #[derive(Serialize)] struct Memory { words }, entries in `order`, the
\* entries of each NextPartList in the order `orders` gives for its key
RECURSIVE ser_memory_entries(_, _, _, _)
ser_memory_entries(m, order, orders, n) ==
    IF n = 0 THEN <<>>
    ELSE ser_memory_entries(m, order, orders, n - 1)
            \o ser_pair(order[n]) \o ser_list(m[order[n]], orders[order[n]])

ser_memory(m, order, orders) ==
    <<Len(order)>> \o ser_memory_entries(m, order, orders, Len(order))

\* the deserializers return [v |-> the value read, p |-> the next position]
de_string(b, p) ==
    [v |-> [i \in 1..b[p] |-> char_of(b[p + i])], p |-> p + 1 + b[p]]

de_part(b, p) ==
    IF b[p] = 0 THEN [v |-> StartOfLine, p |-> p + 1]
    ELSE IF b[p] = 1 THEN [v |-> EndOfLine, p |-> p + 1]
    ELSE LET s == de_string(b, p + 1) IN [v |-> Word(s.v), p |-> s.p]

de_pair(b, p) ==
    LET prev == de_part(b, p)
        prev_prev == de_part(b, prev.p)
    IN  [v |-> [prev |-> prev.v, prev_prev |-> prev_prev.v], p |-> prev_prev.p]

\* HashMap::insert
map_insert(m, k, v) == [x \in DOMAIN m \cup {k} |-> IF x = k THEN v ELSE m[x]]

RECURSIVE de_list_entries(_, _, _, _)
de_list_entries(b, p, n, acc) ==
    IF n = 0 THEN [v |-> acc, p |-> p]
    ELSE LET part == de_part(b, p)
         IN  de_list_entries(b, part.p + 1, n - 1, map_insert(acc, part.v, b[part.p]))

de_list(b, p) == de_list_entries(b, p + 1, b[p], default_list)

RECURSIVE de_memory_entries(_, _, _, _)
de_memory_entries(b, p, n, acc) ==
    IF n = 0 THEN [v |-> acc, p |-> p]
    ELSE LET pair == de_pair(b, p)
             l == de_list(b, pair.p)
         IN  de_memory_entries(b, l.p, n - 1, map_insert(acc, pair.v, l.v))

de_memory(b) == de_memory_entries(b, 2, b[1], default_memory).v

\* for each key in `keys`, an enumeration order of its NextPartList in m
RECURSIVE list_orders(_, _)
list_orders(m, keys) ==
    IF keys = {} THEN {[k \in {} |-> <<>>]}
    ELSE LET key == CHOOSE k \in keys : TRUE
         IN  {map_insert(f, key, o) :
                 f \in list_orders(m, keys \ {key}), o \in Orders(DOMAIN m[key])}

ListOrders(m) == list_orders(m, DOMAIN m)

\* Memory::save: a zip archive with the one deflated entry "memory.dat"
Save ==
    /\ pc = "idle"
    /\ \E order \in Orders(DOMAIN words) : \E orders \in ListOrders(words) :
         file' = [entries |-> <<[name |-> "memory.dat",
                                 data |-> ser_memory(words, order, orders)]>>,
                  exists |-> TRUE]
    /\ saved' = words
    /\ loaded' = NoMemory
    /\ UNCHANGED <<learnVars, speakVars, getVars>>

\* Memory::load: the first entry of the archive, deserialized
Load ==
    /\ pc = "idle"
    /\ loaded' = IF file.exists
                 THEN Ok(de_memory(file.entries[1].data))
                 ELSE CouldNotOpenFile
    /\ UNCHANGED <<file, saved, learnVars, speakVars, getVars>>

----------------------------------------------------------------------------
InitLearn ==
    /\ words = default_memory
    /\ before = default_memory
    /\ lastLine = NoLine
    /\ nLearn = 0
    /\ same = FALSE

InitSpeak ==
    /\ pc = "idle"
    /\ starting_word = NoString
    /\ previous_pair = default_pair
    /\ len = 0
    /\ result = <<>>
    /\ ret = NoString
    /\ exit = "none"

InitPersist ==
    /\ file = NoFile
    /\ saved = default_memory
    /\ loaded = NoMemory

InitGetEmpty ==
    /\ list = default_list
    /\ iter = <<>>
    /\ drawn = 0
    /\ hits = default_list
    /\ nones = 0

\* Memory::default(), no call in progress, no file written
Init == InitLearn /\ InitSpeak /\ InitPersist /\ InitGetEmpty

LowerLines == Strings(Letters \cup Whitespace, MaxLineLen)
CaseLines == Strings(CaseLetters \cup Whitespace, MaxCaseLineLen)
Starts == Strings(CaseLetters \cup Whitespace, MaxStartLen)

\* learn calls only, on lines of lowercase words
NextLearn == \E line \in LowerLines : Learn(line, MaxLearn, TRUE)

SpecLearn == Init /\ [][NextLearn]_vars

\* learn calls only, on lines of mixed-case words
NextCase == \E line \in CaseLines : Learn(line, MaxCaseLearn, TRUE)

SpecCase == Init /\ [][NextCase]_vars

\* learn calls on lines of lowercase words, and speak calls
NextSpeak ==
    \/ \E line \in LowerLines : Learn(line, MaxSpeakLearn, FALSE)
    \/ \E s \in Starts : SpeakStart(s)
    \/ SpeakStep
    \/ SpeakReturn

SpecSpeak == Init /\ [][NextSpeak]_vars

\* the lines learned before a save: few, because every enumeration order of
\* every map is a different file
PersistLines ==
    {<<>>, <<"a">>, <<"a", " ", "a">>, <<"a", " ", "A">>, <<"A", "a">>}

\* learn calls on lines of mixed-case words, save and load
NextPersist ==
    \/ \E line \in PersistLines : Learn(line, MaxPersistLearn, FALSE)
    \/ Save
    \/ Load

SpecPersist == Init /\ [][NextPersist]_vars

\* learn calls on lines of mixed-case words, and speak calls
NextSpeakCase ==
    \/ \E line \in CaseLines : Learn(line, MaxSpeakCaseLearn, FALSE)
    \/ \E s \in Starts : SpeakStart(s)
    \/ SpeakStep
    \/ SpeakReturn

SpecSpeakCase == Init /\ [][NextSpeakCase]_vars

----------------------------------------------------------------------------
(* NextPartList::get, drawn once for every index the rng can produce.      *)

GetParts == {EndOfLine, Word(<<"a">>), Word(<<"a", "a">>)}

\* the NextPartLists over GetParts with counts in 1..MaxCount
GetLists == UNION {[S -> 1..MaxCount] : S \in SUBSET GetParts}

InitGet ==
    /\ InitLearn /\ InitSpeak /\ InitPersist
    /\ list \in GetLists
    /\ iter \in Orders(DOMAIN list)
    /\ drawn = 0
    /\ hits = default_list
    /\ nones = 0

\* one call of get; the rng draws the next index of [0, total) not drawn yet
\* (an empty list returns before it draws, and is called once)
Draw ==
    /\ IF DOMAIN list = {} THEN drawn = 0 ELSE drawn < total(list)
    /\ LET r == get(list, iter, drawn)
       IN  IF r = NoPart
           THEN /\ nones' = nones + 1
                /\ hits' = hits
           ELSE /\ nones' = nones
                /\ hits' = [p \in DOMAIN hits \cup {r} |->
                              IF p = r THEN (IF r \in DOMAIN hits THEN hits[r] ELSE 0) + 1
                              ELSE hits[p]]
    /\ drawn' = drawn + 1
    /\ UNCHANGED <<list, iter, learnVars, speakVars, persistVars>>

NextGet == Draw

SpecGet == InitGet /\ [][NextGet]_vars

----------------------------------------------------------------------------
(* Properties of learn.                                                    *)

\* the count stored for part t under key k in memory m (0 when there is none)
Count(m, k, t) == IF k \in DOMAIN m /\ t \in DOMAIN m[k] THEN m[k][t] ELSE 0

\* the i-th context and continuation of a line whose words are ws, as the
\* documentation of learn lists them
LineContext(ws, i) ==
    [prev |-> Word(ws[i]),
     prev_prev |-> IF i = 1 THEN StartOfLine ELSE Word(ws[i - 1])]
LineNext(ws, i) == IF i < Len(ws) THEN Word(ws[i + 1]) ELSE EndOfLine
LineAdds(ws, k, t) ==
    Cardinality({i \in 1..Len(ws) : LineContext(ws, i) = k /\ LineNext(ws, i) = t})

RepeatedLearnStep ==
    (nLearn' = nLearn + 1 /\ nLearn > 0 /\ lastLine' = lastLine) =>
        /\ DOMAIN words' = DOMAIN words
        /\ \A k \in DOMAIN words :
             /\ DOMAIN words'[k] = DOMAIN words[k]
             /\ \A t \in DOMAIN words[k] :
                  words'[k][t] - words[k][t] = words[k][t] - Count(before, k, t)
        /\ (before = default_memory =>
              \A k \in DOMAIN words : \A t \in DOMAIN words[k] :
                  words'[k][t] = 2 * words[k][t])

\* C3: a learn of the line that was learned just before creates no context
\* and no continuation, and adds to every count exactly what the first learn
\* of that line added; on a memory that was empty before the first of the
\* two, it doubles every count.
RepeatedLearnAddsSameWeight == [][RepeatedLearnStep]_vars

RepeatedLearnHappened ==
    /\ same
    /\ nLearn = 3
    /\ Len(split_ascii_whitespace(lastLine)) >= 2
    /\ \E k \in DOMAIN words : \E t \in DOMAIN words[k] : words[k][t] >= 3

\* C8: every key has a Word in its prev slot, every stored count is >= 1,
\* and a learn removes no key, removes no continuation and lowers no count.
KeysAreWordsCountsPositiveAndGrow ==
    /\ \A k \in DOMAIN words :
         /\ is_word(k.prev)
         /\ \A t \in DOMAIN words[k] : words[k][t] >= 1
    /\ \A k \in DOMAIN before :
         /\ k \in DOMAIN words
         /\ \A t \in DOMAIN before[k] :
              /\ t \in DOMAIN words[k]
              /\ words[k][t] >= before[k][t]

LearnRaisedAStoredCount ==
    /\ nLearn >= 2
    /\ \E k \in DOMAIN before : \E t \in DOMAIN before[k] : words[k][t] > before[k][t]
    /\ \E k \in DOMAIN words : \E t \in DOMAIN words[k] : Count(before, k, t) = 0

----------------------------------------------------------------------------
(* Properties of learn on mixed-case lines.                                *)

\* C1: learn stores each word lowercased: learning a line gives the same
\* memory as learning the ASCII-lowercased line.
LearnStoresLowercase ==
    lastLine # NoLine => words = learn(before, to_ascii_lowercase(lastLine))

----------------------------------------------------------------------------
(* Properties of speak.                                                    *)

\* C5: speak never appends more than 30 words: the loop is never entered
\* again once len is 30, it is left by chance only when len >= 3, and every
\* pass that stays in the loop raises len by one, so the loop ends after at
\* most 30 passes whatever the draws are.
SpeakLoopIsBounded ==
    /\ [](/\ len <= 30
          /\ (pc = "loop" => len < 30)
          /\ (exit = "chance" => len >= 3))
    /\ [][(pc = "loop" /\ pc' = "loop") => len' = len + 1]_vars

SpeakStoppedAtThirtyWords ==
    /\ pc = "done"
    /\ exit = "chance"
    /\ len = 30
    /\ Len(split_ascii_whitespace(ret)) = 31

\* the texts of the Words that occur in the keys of memory m
KeyTexts(m) ==
    {k.prev.text : k \in {x \in DOMAIN m : is_word(x.prev)}} \cup
    {k.prev_prev.text : k \in {x \in DOMAIN m : is_word(x.prev_prev)}}

\* C6: speak returns None for a starting word whose lowercase form is not
\* the text of a Word of any learned context.
UnlearnedStartGivesNone ==
    (pc = "done" /\ to_ascii_lowercase(starting_word) \notin KeyTexts(words))
        => ret = NoString

UnlearnedStartWasSpoken ==
    /\ pc = "done"
    /\ starting_word = <<"A">>
    /\ \E k \in DOMAIN words :
         /\ k = with_previous_word(starting_word)
         /\ \E t \in DOMAIN words[k] : is_word(t)
    /\ to_ascii_lowercase(starting_word) \notin KeyTexts(words)
    /\ ret = NoString

\* the context speak is in before it appends the i-th word of sentence ss
WalkContext(ss, i) ==
    [prev |-> Word(ss[i - 1]),
     prev_prev |-> IF i = 2 THEN StartOfLine ELSE Word(ss[i - 2])]

\* C7: a returned sentence starts with the lowercased starting word, and
\* each further word was learned (count >= 1) as a continuation of the
\* context made of the two tokens before it.
SentenceIsWalkOverLearned ==
    (pc = "done" /\ ret # NoString) =>
        LET ss == split_ascii_whitespace(ret)
        IN  /\ Len(ss) >= 2
            /\ ss[1] = to_ascii_lowercase(starting_word)
            /\ \A i \in 2..Len(ss) : Count(words, WalkContext(ss, i), Word(ss[i])) >= 1

SentenceTookABranch ==
    /\ pc = "done"
    /\ ret # NoString
    /\ LET ss == split_ascii_whitespace(ret)
       IN  /\ Len(ss) >= 3
           /\ \E i \in 2..Len(ss) :
                Cardinality({t \in DOMAIN words[WalkContext(ss, i)] : is_word(t)}) >= 2

\* C10: speak returns None for a starting word that contains ASCII
\* whitespace.
MultiWordStartGivesNone ==
    (pc = "done" /\ \E i \in 1..Len(starting_word) : is_ascii_whitespace(starting_word[i]))
        => ret = NoString

MultiWordStartWasSpoken ==
    /\ pc = "done"
    /\ starting_word = <<"a", " ", "a">>
    /\ with_previous_word(<<"a">>) \in DOMAIN words
    /\ Count(words, with_previous_word(<<"a">>), Word(<<"a">>)) >= 1
    /\ ret = NoString

----------------------------------------------------------------------------
(* Properties of get.                                                      *)

\* C4: on a non-empty list get never returns None, whatever the enumeration
\* order, and once every index of [0, total) has been drawn each part t was
\* returned exactly count(t) times; on an empty list get returns None.
GetSelectsEachPartCountTimes ==
    /\ DOMAIN list # {} =>
         /\ nones = 0
         /\ DOMAIN hits \subseteq DOMAIN list
         /\ \A t \in DOMAIN hits : hits[t] <= list[t]
         /\ (drawn = total(list) => hits = list)
    /\ (DOMAIN list = {} /\ drawn > 0) => (nones = drawn /\ hits = default_list)

GetDrewNineToOne ==
    /\ DOMAIN list = {Word(<<"a">>), EndOfLine}
    /\ list[Word(<<"a">>)] = 9
    /\ list[EndOfLine] = 1
    /\ iter[1] = EndOfLine
    /\ drawn = 10
    /\ hits = list

----------------------------------------------------------------------------
(* Properties of save and load.                                            *)

\* C9: a successful load of the file written by save returns a memory with
\* the same contexts and, for each context, the same continuations with the
\* same counts as the memory that was saved.
LoadReturnsSavedMemory ==
    loaded.status = "Ok" =>
        /\ DOMAIN loaded.memory = DOMAIN saved
        /\ \A k \in DOMAIN saved :
             /\ DOMAIN loaded.memory[k] = DOMAIN saved[k]
             /\ \A t \in DOMAIN saved[k] : loaded.memory[k][t] = saved[k][t]

LoadedLearnedMemory ==
    /\ loaded.status = "Ok"
    /\ Cardinality(DOMAIN saved) >= 3
    /\ \E k \in DOMAIN saved :
         /\ Cardinality(DOMAIN saved[k]) >= 2
         /\ \E t \in DOMAIN saved[k] : saved[k][t] >= 2
    /\ \E k \in DOMAIN saved : k.prev.text = <<"A">>

====
